---- MODULE Spec2Model ----
(***************************************************************************)
(* Model of the Flask microservice in app/main.py: the two module-level    *)
(* connection handles, init_connections, and the four request handlers     *)
(* (health_check, readiness_check, users, get_cache), together with the    *)
(* two external collaborators (the Redis key-value store and the           *)
(* PostgreSQL connection) whose calls the handlers make.                   *)
(***************************************************************************)
EXTENDS Naturals, Sequences, FiniteSets, TLC

VARIABLES
    phase,          \* "boot" before serving begins, "serving" afterwards
    initRan,        \* TRUE iff init_connections was called (__main__ path)
    redis_client,   \* module global, main.py:23
    postgres_conn,  \* module global, main.py:24
    APP_VERSION,    \* process environment variable read by health_check
    store,          \* contents of the Redis store: key -> string
    redisFault,     \* exception every Redis call raises now, or NoExc
    pgFault,        \* where and what the PostgreSQL connection raises now
    resp,           \* the request just handled and its response
    nPosts,         \* history: POST /api/users requests handled so far
    caught          \* history: some handler has caught a collaborator error

vars == <<phase, initRan, redis_client, postgres_conn, APP_VERSION, store,
          redisFault, pgFault, resp, nPosts, caught>>

-----------------------------------------------------------------------------
(* Bounds *)

MaxPosts == 2       \* nPosts saturates here
MaxMembers == 2     \* members of a JSON object sent to POST /api/users

-----------------------------------------------------------------------------
(* Python values *)

None == [kind |-> "None"]

\* truth value of a connection handle: redis.Redis and psycopg2 connections
\* define neither __bool__ nor __len__, so only None is false
HandleTruthy(h) == h # None

\* result of redis_client.get with decode_responses=True: None or a str
NoValue == [some |-> FALSE]
Some(v) == [some |-> TRUE, v |-> v]

\* truth value of `value` in `if value:`; the empty str is false
ValueTruthy(value) == value.some /\ value.v # ""

\* exceptions: class and args
NoExc == [cls |-> "none", args |-> <<>>]
RedisExcs ==
    { [cls |-> "ConnectionError",
       args |-> <<"Error 111 connecting to localhost:6379. Connection refused.">>],
      [cls |-> "TimeoutError", args |-> <<>>] }
PgExcs ==
    { [at |-> "cursor",
       exc |-> [cls |-> "InterfaceError", args |-> <<"connection already closed">>]],
      [at |-> "execute",
       exc |-> [cls |-> "OperationalError", args |-> <<"server closed the connection unexpectedly">>]],
      [at |-> "execute",
       exc |-> [cls |-> "OperationalError", args |-> <<>>]] }
NoPgFault == [at |-> "none", exc |-> NoExc]

\* str(e) of BaseException: "" without args, str(args[0]) with one arg
ExcStr(e) == IF Len(e.args) = 0 THEN "" ELSE e.args[1]

\* os.getenv(name, default) on an environment entry
Unset == [set |-> FALSE]
EnvSet(v) == [set |-> TRUE, v |-> v]
getenv(entry, default) == IF entry.set THEN entry.v ELSE default

\* int(s) on a str given as its characters raises ValueError unless s is
\* one or more digits; the default 6379 is an int already
Digits == {"0", "1", "2", "3", "4", "5", "6", "7", "8", "9"}
IntRaises(s) == ~(Len(s) > 0 /\ \A i \in 1..Len(s) : s[i] \in Digits)

DefaultVersion == "1.0.0"

\* values of REDIS_PORT in the environment at startup
PortEnv == { Unset, EnvSet(<<"6", "3", "8", "0">>), EnvSet(<<"a", "b", "c">>) }
\* values of APP_VERSION in the environment
VersionEnv == { Unset, EnvSet("2.0") }

\* datetime.utcnow() readings and datetime.isoformat()
Times == { [date |-> "2026-11-05", time |-> "10:00:00", micro |-> 0],
           [date |-> "2026-11-05", time |-> "10:00:01", micro |-> 2500] }
RECURSIVE ZeroPad(_)
ZeroPad(s) == IF Len(s) >= 6 THEN s ELSE ZeroPad("0" \o s)
isoformat(t) ==
    t.date \o "T" \o t.time \o
        (IF t.micro = 0 THEN "" ELSE "." \o ZeroPad(ToString(t.micro)))

-----------------------------------------------------------------------------
(* The Redis store *)

Keys == {"greeting", "nonexistent"}
StoreKeys == {"greeting"}
Values == {"", "hello"}

\* redis_client.get(key) when the call does not raise
RedisGet(key) == IF key \in DOMAIN store THEN Some(store[key]) ELSE NoValue

-----------------------------------------------------------------------------
(* JSON on the wire, request.get_json() and jsonify() *)

\* JSON texts: scalars, arrays of scalars, objects with scalar members.
\* An object is its member list as written, so a name may occur twice.
JNull == [t |-> "null"]
JBool(b) == [t |-> "bool", b |-> b]
JNum(n) == [t |-> "num", n |-> n]
JStr(s) == [t |-> "str", s |-> s]
JArr(items) == [t |-> "arr", items |-> items]
JObj(members) == [t |-> "obj", members |-> members]
Malformed == [t |-> "malformed"]

SeqsUpTo(S, n) == UNION { [1..m -> S] : m \in 0..n }

Scalars == { JNull, JBool(FALSE), JNum(0), JStr(""), JStr("Test User") }
Arrays == { JArr(<<>>), JArr(<<JNum(0)>>), JArr(<<JStr("Test User"), JNull>>) }
MemberNames == <<"email", "name">>      \* in sorted order
Members == { <<"name", JStr("Test User")>>, <<"email", JStr("test@example.com")>>,
             <<"name", JStr("")>> }
JsonTexts == Scalars \cup Arrays \cup { JObj(m) : m \in SeqsUpTo(Members, MaxMembers) }
Bodies == JsonTexts \cup { Malformed }
NoBody == [t |-> "none"]

\* Python values: None, bool, int, str, list, dict
PyNone == [py |-> "None"]
PyScalar(j) ==
    CASE j.t = "null" -> PyNone
      [] j.t = "bool" -> [py |-> "bool", b |-> j.b]
      [] j.t = "num" -> [py |-> "int", n |-> j.n]
      [] j.t = "str" -> [py |-> "str", s |-> j.s]

\* json.loads: a repeated object name keeps its last value
LastValue(members, k) ==
    LET i == CHOOSE i \in 1..Len(members) :
                 /\ members[i][1] = k
                 /\ \A j \in (i + 1)..Len(members) : members[j][1] # k
    IN members[i][2]
loads(j) ==
    CASE j.t = "arr" ->
           [py |-> "list", items |-> [i \in 1..Len(j.items) |-> PyScalar(j.items[i])]]
      [] j.t = "obj" ->
           [py |-> "dict",
            d |-> [k \in { j.members[i][1] : i \in 1..Len(j.members) } |->
                       PyScalar(LastValue(j.members, k))]]
      [] OTHER -> PyScalar(j)

\* json.dumps as jsonify calls it: object names in sorted order
JScalar(v) ==
    CASE v.py = "None" -> JNull
      [] v.py = "bool" -> JBool(v.b)
      [] v.py = "int" -> JNum(v.n)
      [] v.py = "str" -> JStr(v.s)
dumps(v) ==
    CASE v.py = "list" -> JArr([i \in 1..Len(v.items) |-> JScalar(v.items[i])])
      [] v.py = "dict" ->
           LET names == SelectSeq(MemberNames, LAMBDA k : k \in DOMAIN v.d)
           IN JObj([i \in 1..Len(names) |-> <<names[i], JScalar(v.d[names[i]])>>])
      [] OTHER -> JScalar(v)

-----------------------------------------------------------------------------
(* Responses *)

\* what a handler returns, and the collaborator calls it made on the way
Response(status, body, calls) ==
    [status |-> status, json |-> TRUE, body |-> body, calls |-> calls]
\* an HTTPException raised inside a handler: the framework's HTML error page
ErrorPage(status, calls) ==
    [status |-> status, json |-> FALSE, body |-> [page |-> status], calls |-> calls]

Idle == [op |-> "idle", key |-> "", sent |-> NoBody, status |-> 0, json |-> TRUE,
         body |-> [page |-> 0], calls |-> <<>>]
Handled(op, key, sent, r) ==
    [op |-> op, key |-> key, sent |-> sent, status |-> r.status, json |-> r.json,
     body |-> r.body, calls |-> r.calls]

-----------------------------------------------------------------------------
(* Handlers: what each returns in the current state *)

\* health_check as it would be if it probed the cache before answering
health_check_pinging(now) ==
    IF HandleTruthy(redis_client) /\ redisFault # NoExc
    THEN Response(503, [status |-> "unhealthy", error |-> ExcStr(redisFault)], <<"ping">>)
    ELSE Response(200,
                  [status |-> "healthy",
                   timestamp |-> isoformat(now),
                   version |-> getenv(APP_VERSION, DefaultVersion)],
                  IF HandleTruthy(redis_client) THEN <<"ping">> ELSE <<>>)

\* health_check
health_check_result(now) ==
    Response(200,
             [status |-> "healthy",
              timestamp |-> isoformat(now),
              version |-> getenv(APP_VERSION, DefaultVersion)],
             <<>>)

Ready(calls) == Response(200, [status |-> "ready"], calls)
NotReady(e, calls) ==
    Response(503, [status |-> "not ready", error |-> ExcStr(e)], calls)

\* readiness_check as it would be without the PostgreSQL probe
readiness_check_cache_only ==
    LET redisCalls == IF HandleTruthy(redis_client) THEN <<"ping">> ELSE <<>>
    IN IF HandleTruthy(redis_client) /\ redisFault # NoExc
       THEN NotReady(redisFault, redisCalls)
       ELSE Ready(redisCalls)

\* readiness_check as it would be with the PostgreSQL probe first
readiness_check_pg_first ==
    LET pgCalls == IF ~HandleTruthy(postgres_conn) THEN <<>>
                   ELSE IF pgFault.at = "cursor" THEN <<"cursor">>
                   ELSE IF pgFault.at = "execute" THEN <<"cursor", "execute">>
                   ELSE <<"cursor", "execute", "close">>
    IN IF HandleTruthy(postgres_conn) /\ pgFault # NoPgFault
       THEN NotReady(pgFault.exc, pgCalls)
       ELSE IF HandleTruthy(redis_client) /\ redisFault # NoExc
       THEN NotReady(redisFault, pgCalls \o <<"ping">>)
       ELSE Ready(pgCalls \o (IF HandleTruthy(redis_client) THEN <<"ping">> ELSE <<>>))

\* readiness_check as it would be with the PostgreSQL probe outside the try
readiness_check_pg_uncaught ==
    LET redisCalls == IF HandleTruthy(redis_client) THEN <<"ping">> ELSE <<>>
    IN IF HandleTruthy(redis_client) /\ redisFault # NoExc
       THEN NotReady(redisFault, redisCalls)
       ELSE IF ~HandleTruthy(postgres_conn)
       THEN Ready(redisCalls)
       ELSE IF pgFault.at = "cursor"
       THEN ErrorPage(500, redisCalls \o <<"cursor">>)
       ELSE IF pgFault.at = "execute"
       THEN ErrorPage(500, redisCalls \o <<"cursor", "execute">>)
       ELSE Ready(redisCalls \o <<"cursor", "execute", "close">>)

\* readiness_check: the try block runs until the first call that raises
readiness_check_result ==
    LET redisCalls == IF HandleTruthy(redis_client) THEN <<"ping">> ELSE <<>>
    IN IF HandleTruthy(redis_client) /\ redisFault # NoExc
       THEN NotReady(redisFault, redisCalls)
       ELSE IF ~HandleTruthy(postgres_conn)
       THEN Ready(redisCalls)
       ELSE IF pgFault.at = "cursor"
       THEN NotReady(pgFault.exc, redisCalls \o <<"cursor">>)
       ELSE IF pgFault.at = "execute"
       THEN NotReady(pgFault.exc, redisCalls \o <<"cursor", "execute">>)
       ELSE Ready(redisCalls \o <<"cursor", "execute", "close">>)

FixedUsers ==
    << [id |-> 1, name |-> "John Doe", email |-> "john@example.com"],
       [id |-> 2, name |-> "Jane Smith", email |-> "jane@example.com"] >>

\* the GET branch as it would be if POST had stored what it was sent
users_get_with_created ==
    Response(200,
             [users |-> FixedUsers \o
                  [i \in 1..nPosts |->
                      [id |-> 2 + i, name |-> "Test User", email |-> "test@example.com"]]],
             <<>>)

\* users, GET branch
users_get_result == Response(200, [users |-> FixedUsers], <<>>)

\* request.get_json() on a parseable body
get_json(body) == loads(body)

\* truth value of a parsed body
PyTruthy(v) ==
    CASE v.py = "None" -> FALSE
      [] v.py = "bool" -> v.b
      [] v.py = "int" -> v.n # 0
      [] v.py = "str" -> v.s # ""
      [] v.py = "list" -> Len(v.items) > 0
      [] v.py = "dict" -> DOMAIN v.d # {}

\* the POST branch as it would be with `request.get_json() or {}`
users_post_defaulting(body) ==
    IF body = Malformed
    THEN ErrorPage(400, <<>>)
    ELSE LET user_data == IF PyTruthy(get_json(body)) THEN get_json(body)
                          ELSE [py |-> "dict", d |-> << >>]
         IN Response(201,
                     [message |-> "User created successfully",
                      user |-> dumps(user_data)],
                     <<>>)

\* users, POST branch; get_json raises BadRequest on an unparseable body
users_post_result(body) ==
    IF body = Malformed
    THEN ErrorPage(400, <<>>)
    ELSE LET user_data == get_json(body)
         IN Response(201,
                     [message |-> "User created successfully",
                      user |-> dumps(user_data)],
                     <<>>)

\* get_cache as it would be if a raising lookup were reported as unavailable
get_cache_unavailable_on_error(key) ==
    IF HandleTruthy(redis_client)
    THEN IF redisFault # NoExc
         THEN Response(503, [error |-> "Redis not available"], <<"get">>)
         ELSE LET value == RedisGet(key)
              IN IF ValueTruthy(value)
                 THEN Response(200, [key |-> key, value |-> value.v], <<"get">>)
                 ELSE Response(404, [error |-> "Key not found"], <<"get">>)
    ELSE Response(503, [error |-> "Redis not available"], <<>>)

\* get_cache as it would be without the test of `value`
get_cache_no_value_test(key) ==
    IF HandleTruthy(redis_client)
    THEN IF redisFault # NoExc
         THEN Response(500, [error |-> ExcStr(redisFault)], <<"get">>)
         ELSE Response(200, [key |-> key, value |-> RedisGet(key)], <<"get">>)
    ELSE Response(503, [error |-> "Redis not available"], <<>>)

\* get_cache
get_cache_result(key) ==
    IF HandleTruthy(redis_client)
    THEN IF redisFault # NoExc
         THEN Response(500, [error |-> ExcStr(redisFault)], <<"get">>)
         ELSE LET value == RedisGet(key)
              IN IF ValueTruthy(value)
                 THEN Response(200, [key |-> key, value |-> value.v], <<"get">>)
                 ELSE Response(404, [error |-> "Key not found"], <<"get">>)
    ELSE Response(503, [error |-> "Redis not available"], <<>>)

-----------------------------------------------------------------------------
(* Startup *)

Init ==
    /\ phase = "boot"
    /\ initRan = FALSE
    /\ redis_client = None
    /\ postgres_conn = None
    /\ APP_VERSION \in VersionEnv
    /\ store = << >>
    /\ redisFault = NoExc
    /\ pgFault = NoPgFault
    /\ resp = Idle
    /\ nPosts = 0
    /\ caught = FALSE

\* __main__: init_connections(), then app.run.  redis.Redis(...) opens no
\* connection, so it succeeds whatever the state of the store;
\* psycopg2.connect raises when the database cannot be reached.  Either
\* exception leaves the try block with the later assignments not made.
init_connections(port) ==
    /\ phase = "boot"
    /\ IF port.set /\ IntRaises(port.v)
       THEN UNCHANGED <<redis_client, postgres_conn>>
       ELSE /\ redis_client' = [kind |-> "Redis"]
            /\ IF pgFault # NoPgFault
               THEN UNCHANGED postgres_conn
               ELSE postgres_conn' = [kind |-> "connection"]
    /\ phase' = "serving"
    /\ initRan' = TRUE
    /\ UNCHANGED <<APP_VERSION, store, redisFault, pgFault, resp, nPosts, caught>>

\* the application imported and served without init_connections: the test
\* client, or any WSGI server importing app.main
import_app ==
    /\ phase = "boot"
    /\ phase' = "serving"
    /\ UNCHANGED <<initRan, redis_client, postgres_conn, APP_VERSION, store,
                   redisFault, pgFault, resp, nPosts, caught>>

-----------------------------------------------------------------------------
(* Requests *)

health_check ==
    /\ phase = "serving"
    /\ \E now \in Times :
           resp' = Handled("health", "", NoBody, health_check_result(now))
    /\ UNCHANGED <<phase, initRan, redis_client, postgres_conn, APP_VERSION,
                   store, redisFault, pgFault, nPosts, caught>>

readiness_check ==
    /\ phase = "serving"
    /\ resp' = Handled("ready", "", NoBody, readiness_check_result)
    /\ caught' = (caught \/ readiness_check_result.status = 503)
    /\ UNCHANGED <<phase, initRan, redis_client, postgres_conn, APP_VERSION,
                   store, redisFault, pgFault, nPosts>>

users_get ==
    /\ phase = "serving"
    /\ resp' = Handled("users_get", "", NoBody, users_get_result)
    /\ UNCHANGED <<phase, initRan, redis_client, postgres_conn, APP_VERSION,
                   store, redisFault, pgFault, nPosts, caught>>

users_post(body) ==
    /\ phase = "serving"
    /\ resp' = Handled("users_post", "", body, users_post_result(body))
    /\ nPosts' = IF nPosts < MaxPosts THEN nPosts + 1 ELSE nPosts
    /\ UNCHANGED <<phase, initRan, redis_client, postgres_conn, APP_VERSION,
                   store, redisFault, pgFault, caught>>

\* get_cache as it would be if it dropped the handle after a failed lookup
get_cache_evicting(key) ==
    /\ phase = "serving"
    /\ resp' = Handled("cache", key, NoBody, get_cache_result(key))
    /\ caught' = (caught \/ get_cache_result(key).status = 500)
    /\ redis_client' = IF get_cache_result(key).status = 500 THEN None ELSE redis_client
    /\ UNCHANGED <<phase, initRan, postgres_conn, APP_VERSION,
                   store, redisFault, pgFault, nPosts>>

get_cache(key) ==
    /\ phase = "serving"
    /\ resp' = Handled("cache", key, NoBody, get_cache_result(key))
    /\ caught' = (caught \/ get_cache_result(key).status = 500)
    /\ UNCHANGED <<phase, initRan, redis_client, postgres_conn, APP_VERSION,
                   store, redisFault, pgFault, nPosts>>

-----------------------------------------------------------------------------
(* The collaborators, changing on their own; the response just delivered  *)
(* is forgotten, so that resp always goes with the state it was made in.   *)

RedisSet(k, v) ==
    /\ store' = [x \in DOMAIN store \cup {k} |-> IF x = k THEN v ELSE store[x]]
    /\ store' # store
    /\ resp' = Idle
    /\ UNCHANGED <<phase, initRan, redis_client, postgres_conn, APP_VERSION,
                   redisFault, pgFault, nPosts, caught>>

RedisDel(k) ==
    /\ k \in DOMAIN store
    /\ store' = [x \in DOMAIN store \ {k} |-> store[x]]
    /\ resp' = Idle
    /\ UNCHANGED <<phase, initRan, redis_client, postgres_conn, APP_VERSION,
                   redisFault, pgFault, nPosts, caught>>

RedisChange(e) ==
    /\ e # redisFault
    /\ redisFault' = e
    /\ resp' = Idle
    /\ UNCHANGED <<phase, initRan, redis_client, postgres_conn, APP_VERSION,
                   store, pgFault, nPosts, caught>>

PgChange(f) ==
    /\ f # pgFault
    /\ pgFault' = f
    /\ resp' = Idle
    /\ UNCHANGED <<phase, initRan, redis_client, postgres_conn, APP_VERSION,
                   store, redisFault, nPosts, caught>>

Next ==
    \/ \E port \in PortEnv : init_connections(port)
    \/ import_app
    \/ health_check
    \/ readiness_check
    \/ users_get
    \/ \E body \in Bodies : users_post(body)
    \/ \E key \in Keys : get_cache(key)
    \/ \E k \in StoreKeys, v \in Values : RedisSet(k, v)
    \/ \E k \in StoreKeys : RedisDel(k)
    \/ \E e \in RedisExcs \cup {NoExc} : RedisChange(e)
    \/ \E f \in PgExcs \cup {NoPgFault} : PgChange(f)

Spec == Init /\ [][Next]_vars

TypeOK ==
    /\ phase \in {"boot", "serving"}
    /\ initRan \in BOOLEAN
    /\ nPosts \in 0..MaxPosts
    /\ DOMAIN store \subseteq StoreKeys

-----------------------------------------------------------------------------
(* Properties *)

\* a probe is attempted only through a handle that is set, and fails when
\* the call it makes raises
CacheProbeFails == HandleTruthy(redis_client) /\ redisFault # NoExc
PgProbeFails == HandleTruthy(postgres_conn) /\ pgFault # NoPgFault
LookupRaises == HandleTruthy(redis_client) /\ redisFault # NoExc

\* C1, as claimed: /ready answers 200 {status: ready} when no probe fails
\* and 503 with a non-empty error string when the cache probe or the
\* relational probe fails, whatever exception the probe raises.
C1_NonEmptyError ==
    resp.op = "ready" =>
        /\ (~CacheProbeFails /\ ~PgProbeFails) =>
               (resp.status = 200 /\ resp.body = [status |-> "ready"])
        /\ (CacheProbeFails \/ PgProbeFails) =>
               (resp.status = 503 /\ resp.body.error # "")

\* C1, amended: /ready answers 200 {status: ready} when every probe it
\* attempts succeeds, and 503 {status: not ready, error} when an attempted
\* probe raises, the error being str() of the exception of the first probe
\* that raised, which is the empty string for an exception without args.
C1_Readiness ==
    resp.op = "ready" =>
        /\ resp.json
        /\ (~CacheProbeFails /\ ~PgProbeFails) =>
               (resp.status = 200 /\ resp.body = [status |-> "ready"])
        /\ CacheProbeFails =>
               /\ resp.status = 503
               /\ resp.body = [status |-> "not ready", error |-> ExcStr(redisFault)]
        /\ (~CacheProbeFails /\ PgProbeFails) =>
               /\ resp.status = 503
               /\ resp.body = [status |-> "not ready", error |-> ExcStr(pgFault.exc)]

\* a probe raised an exception without args and /ready answered 503 with
\* an empty error
C1_Witness ==
    /\ resp.op = "ready"
    /\ ~CacheProbeFails
    /\ PgProbeFails
    /\ resp.status = 503
    /\ resp.body.error = ""

\* C2, as claimed: with a cache handle, /api/cache/<key> answers 200
\* {key, value} when the key is in the store, whatever its value, 404
\* {error: Key not found} when it is not, and 500 {error: str(cause)} when
\* the lookup raises.
C2_LookupClassified ==
    (resp.op = "cache" /\ HandleTruthy(redis_client)) =>
        /\ redisFault # NoExc =>
               (resp.status = 500 /\ resp.body = [error |-> ExcStr(redisFault)])
        /\ (redisFault = NoExc /\ resp.key \in DOMAIN store) =>
               /\ resp.status = 200
               /\ resp.body = [key |-> resp.key, value |-> store[resp.key]]
        /\ (redisFault = NoExc /\ resp.key \notin DOMAIN store) =>
               (resp.status = 404 /\ resp.body = [error |-> "Key not found"])

\* C3, as claimed: when the cache handle is unset or the store cannot be
\* reached, /api/cache/<key> answers 503 {error: Redis not available} and
\* makes no lookup.
C3_UnreachableIs503 ==
    (resp.op = "cache" /\ (~HandleTruthy(redis_client) \/ redisFault # NoExc)) =>
        /\ resp.status = 503
        /\ resp.body = [error |-> "Redis not available"]
        /\ resp.calls = <<>>

\* C3, amended: /api/cache/<key> answers 503 {error: Redis not available}
\* without a lookup exactly when the cache handle is unset; with a handle
\* and the store unreachable the lookup is made, raises, and the answer is
\* 500 with str() of the exception.
C3_UnsetHandleIs503 ==
    resp.op = "cache" =>
        /\ ~HandleTruthy(redis_client) =>
               /\ resp.status = 503
               /\ resp.body = [error |-> "Redis not available"]
               /\ resp.calls = <<>>
        /\ HandleTruthy(redis_client) =>
               (resp.status # 503 /\ resp.calls = <<"get">>)
        /\ LookupRaises =>
               (resp.status = 500 /\ resp.body = [error |-> ExcStr(redisFault)])

\* the handle is unset while the store itself is reachable and holds the
\* key, and the answer is 503
C3_Witness ==
    /\ resp.op = "cache"
    /\ redis_client = None
    /\ redisFault = NoExc
    /\ resp.key \in DOMAIN store
    /\ resp.status = 503

\* C4: /health answers 200 with status healthy, a non-empty timestamp and
\* a version, and calls no collaborator, whatever the handles and the
\* collaborators are and whatever was served before.
C4_HealthAlways200 ==
    resp.op = "health" =>
        /\ resp.status = 200
        /\ resp.json
        /\ DOMAIN resp.body = {"status", "timestamp", "version"}
        /\ resp.body.status = "healthy"
        /\ resp.body.timestamp # ""
        /\ resp.body.version \in {"1.0.0", "2.0"}
        /\ resp.calls = <<>>

\* /health answered while both collaborators were failing behind set
\* handles, after an earlier request had failed
C4_Witness ==
    /\ resp.op = "health"
    /\ initRan
    /\ CacheProbeFails
    /\ PgProbeFails
    /\ caught

\* C5: GET /api/users answers 200 with the same two users, John Doe first,
\* however many POST /api/users came before.
C5_FixedListing ==
    resp.op = "users_get" =>
        /\ resp.status = 200
        /\ resp.json
        /\ Len(resp.body.users) = 2
        /\ resp.body.users[1] =
               [id |-> 1, name |-> "John Doe", email |-> "john@example.com"]
        /\ resp.body.users[2] =
               [id |-> 2, name |-> "Jane Smith", email |-> "jane@example.com"]

\* the listing was served after two POSTs
C5_Witness == resp.op = "users_get" /\ nPosts >= 2

\* C6: POST /api/users with a parseable JSON body answers 201 with the
\* message User created successfully and a user field that decodes to the
\* value the body decodes to, whatever the body, the collaborators and the
\* earlier requests.
C6_EchoesBody ==
    (resp.op = "users_post" /\ resp.sent # Malformed) =>
        /\ resp.status = 201
        /\ resp.json
        /\ DOMAIN resp.body = {"message", "user"}
        /\ resp.body.message = "User created successfully"
        /\ loads(resp.body.user) = loads(resp.sent)
        /\ resp.calls = <<>>

\* JSON null was posted, with no handle set and after an earlier POST, and
\* came back
C6_Witness ==
    /\ resp.op = "users_post"
    /\ resp.sent = JNull
    /\ resp.body.user = JNull
    /\ redis_client = None
    /\ nPosts >= 2

\* C7: /api/cache/<key> for a key that is not in the store never answers
\* 200; it answers 503 when the handle is unset and 404 when the handle is
\* set and the lookup returns nothing.
C7_AbsentKeyNever200 ==
    (resp.op = "cache" /\ resp.key \notin DOMAIN store) =>
        /\ resp.status # 200
        /\ ~HandleTruthy(redis_client) => resp.status = 503
        /\ (HandleTruthy(redis_client) /\ redisFault = NoExc) => resp.status = 404
        /\ (~HandleTruthy(redis_client) \/ redisFault = NoExc) =>
               resp.status \in {404, 503}

\* the key nonexistent was looked up through a set handle in an empty
\* store, and the answer was 404
C7_Witness ==
    /\ resp.op = "cache"
    /\ resp.key = "nonexistent"
    /\ store = << >>
    /\ HandleTruthy(redis_client)
    /\ resp.status = 404

\* C8: an exception raised by a collaborator call never leaves the handler:
\* /ready answers it with a JSON 503 carrying an error, /api/cache/<key>
\* with a JSON 500 carrying an error, and once that has happened the
\* service is still serving and answers /health and GET /api/users as
\* before.
C8_FailuresContained ==
    /\ (resp.op = "ready" /\ (CacheProbeFails \/ PgProbeFails)) =>
           (resp.json /\ resp.status = 503 /\ "error" \in DOMAIN resp.body)
    /\ (resp.op = "cache" /\ LookupRaises) =>
           (resp.json /\ resp.status = 500 /\ "error" \in DOMAIN resp.body)
    /\ resp.op \in {"ready", "cache"} => resp.json
    /\ caught =>
           /\ phase = "serving"
           /\ ENABLED health_check
           /\ ENABLED users_get
           /\ resp.op = "health" => (resp.json /\ resp.status = 200)
           /\ resp.op = "users_get" => (resp.json /\ resp.status = 200)

\* a relational probe raised and was answered with 503 after an earlier
\* failure had already been caught
C8_Witness ==
    /\ resp.op = "ready"
    /\ ~CacheProbeFails
    /\ PgProbeFails
    /\ resp.status = 503
    /\ caught

\* C9: /ready makes its calls in the order ping, cursor, execute, close and
\* stops at the first that raises: when ping raises no PostgreSQL call is
\* made, and a 503 carries one error, str() of the exception of the last
\* call made.
PgCalls == {"cursor", "execute", "close"}
C9_CacheFirstThenStop ==
    resp.op = "ready" =>
        /\ \A i \in 1..Len(resp.calls) : resp.calls[i] = "ping" => i = 1
        /\ HandleTruthy(redis_client) =>
               (Len(resp.calls) >= 1 /\ resp.calls[1] = "ping")
        /\ CacheProbeFails =>
               /\ resp.calls = <<"ping">>
               /\ resp.status = 503
               /\ resp.body.error = ExcStr(redisFault)
        /\ (~CacheProbeFails /\ PgProbeFails) =>
               /\ resp.calls[Len(resp.calls)] = pgFault.at
               /\ resp.body.error = ExcStr(pgFault.exc)
        /\ resp.status = 503 => DOMAIN resp.body = {"status", "error"}
        /\ (resp.status = 200 /\ HandleTruthy(postgres_conn)) =>
               SubSeq(resp.calls, Len(resp.calls) - 2, Len(resp.calls)) =
                   <<"cursor", "execute", "close">>

\* both probes would raise, with different messages, and /ready made only
\* the ping
C9_Witness ==
    /\ resp.op = "ready"
    /\ CacheProbeFails
    /\ PgProbeFails
    /\ ExcStr(redisFault) # ExcStr(pgFault.exc)
    /\ resp.calls = <<"ping">>

\* C10: the handles change only in the step from boot to serving that
\* init_connections takes; once serving, no step changes either, so an
\* unset handle stays unset.
C10_HandlesFrozen ==
    [][ /\ phase = "serving" =>
               (redis_client' = redis_client /\ postgres_conn' = postgres_conn)
        /\ (redis_client' # redis_client \/ postgres_conn' # postgres_conn) =>
               (phase = "boot" /\ phase' = "serving" /\ initRan') ]_vars

\* serving with the cache handle set and the relational handle unset, the
\* database reachable again, after a lookup that raised was answered
C10_Witness ==
    /\ phase = "serving"
    /\ HandleTruthy(redis_client)
    /\ postgres_conn = None
    /\ pgFault = NoPgFault
    /\ caught

====
